---- MODULE Spec2Model ----
(***************************************************************************)
(* Model of the transaction API of src/main.go: five gin handlers that     *)
(* read and delete rows of the relation "transactions" held by an external *)
(* PostgreSQL store.  The store is the only shared state.  Every SQL       *)
(* statement is one atomic step; deleteMostRecentJob issues two statements *)
(* and other requests and the external ingestion may run between them.     *)
(*                                                                         *)
(* Amounts are float64 in the source; the model uses integers.             *)
(***************************************************************************)
EXTENDS Integers, Sequences, FiniteSets, TLC

\* Bound on the number of rows the ingestion inserts in one behaviour.
MaxRows == 2

\* Values the ingestion chooses from: the job of a row and its ledger entry.
Jobs == {"A", "B"}
Entries ==
    {[type |-> "debit", amount |-> 50, date |-> 1],
     [type |-> "credit", amount |-> 30, date |-> 2]}
Descriptions == {"rent"}

\* Requests that can be in progress at the same time.
Reqs == {"r1", "r2"}

NoJob == "none"
NoReq == "none"

StatusOK == 200
StatusNotFound == 404
StatusInternalServerError == 500

\* Path parameter :id as the handler receives it: a text that either is a
\* decimal integer n (ok) or is not one ("abc").
NoParam == [ok |-> FALSE, n |-> 0]
Params == [ok : {TRUE}, n : 1..MaxRows] \cup {NoParam}

VARIABLES
    store,        \* rows of the relation transactions
    nextId,       \* next value of the store-assigned id
    clock,        \* latest created_at the store has assigned
    req,          \* per request: position in deleteMostRecentJob, its jobID
    deletedById,  \* history: ids removed by DELETE /transactions/:id
    last          \* history: the step just taken and the response it wrote

vars == <<store, nextId, clock, req, deletedById, last>>

----------------------------------------------------------------------------
\* The struct the handlers scan a row into: no job_id.
Transaction(row) ==
    [id |-> row.id, date |-> row.date, description |-> row.description,
     amount |-> row.amount, type |-> row.type, created_at |-> row.created_at]

\* A Go slice []Transaction: nil, or a (possibly empty) array.
NilSlice == [isNil |-> TRUE, elems |-> <<>>]

append(s, t) == [isNil |-> FALSE, elems |-> Append(s.elems, t)]

\* encoding/json of a slice: a nil slice is null, any other one an array.
MarshalSlice(s) ==
    IF s.isNil THEN [json |-> "null", elems |-> <<>>]
    ELSE [json |-> "array", elems |-> s.elems]

\* for rows.Next() { rows.Scan(&t); transactions = append(transactions, t) }
RECURSIVE ScanAll(_, _)
ScanAll(rows, acc) ==
    IF rows = <<>> THEN acc
    ELSE ScanAll(Tail(rows), append(acc, Transaction(Head(rows))))

\* SELECT ... ORDER BY date DESC: every order of S with dates not increasing.
RECURSIVE OrderByDateDesc(_)
OrderByDateDesc(S) ==
    IF S = {} THEN {<<>>}
    ELSE UNION {{<<t>> \o s : s \in OrderByDateDesc(S \ {t})} :
                t \in {t \in S : \A u \in S : u.date <= t.date}}

\* SELECT ... WHERE id = $1
SelectById(S, n) == {t \in S : t.id = n}

\* SELECT COUNT(*) FROM transactions
Count(S) == Cardinality(S)

RECURSIVE Sum(_)
Sum(S) ==
    IF S = {} THEN 0
    ELSE LET t == CHOOSE t \in S : TRUE IN t.amount + Sum(S \ {t})

\* Mutant: the WHERE clause on type is missing.
SumOfTypeNoWhere(S, ty) == Sum(S)

\* SELECT COALESCE(SUM(amount), 0) FROM transactions WHERE type = ty
SumOfType(S, ty) == Sum({t \in S : t.type = ty})

\* Mutant: ORDER BY created_at ASC.
MostRecentAscending(S) == {t \in S : \A u \in S : t.created_at <= u.created_at}

\* SELECT job_id ... ORDER BY created_at DESC LIMIT 1: a row with the maximal
\* created_at; which one among equals is the store's choice.
MostRecent(S) == {t \in S : \A u \in S : u.created_at <= t.created_at}

\* Mutant: DELETE without the WHERE clause.
RowsOfAnyJob(S, j) == S

\* DELETE ... WHERE job_id = $1
RowsOfJob(S, j) == {t \in S : t.job_id = j}

----------------------------------------------------------------------------
\* mark (history): nextId when the request ran its first statement.
Idle == [pc |-> "idle", jobID |-> NoJob, mark |-> 0]

NoBody == [message |-> ""]

ErrorBody(text) == [error |-> text]

\* History record.  phase: "none" nothing to report, "step" a statement that
\* wrote no response, "response" a response just written, "delivered" the
\* summary kept of a delivered deleteMostRecentJob response.
\* err: "nil", "no_rows" (pgx.ErrNoRows), "syntax" (the store rejects the
\* text of the id), "conn" (the store cannot be reached).
\* stmts: statements deleteMostRecentJob has executed (1 in other responses).
\* seq, two, chain, peer, mark: see lookupMostRecentJob, deleteMostRecentJob.
Quiet ==
    [phase |-> "none", req |-> NoReq, op |-> "none", arg |-> NoParam,
     status |-> 0, err |-> "nil", body |-> NoBody, removed |-> {},
     job |-> NoJob, stmts |-> 0, seq |-> FALSE, two |-> FALSE,
     chain |-> NoJob, peer |-> FALSE, mark |-> 0]

Response(r, op, arg, status, err, body, removed) ==
    [Quiet EXCEPT !.phase = "response", !.req = r, !.op = op, !.arg = arg,
                  !.status = status, !.err = err, !.body = body,
                  !.removed = removed, !.stmts = 1]

\* A response is written and not yet delivered.
Pending == last.phase = "response"

Init ==
    /\ store = {}
    /\ nextId = 1
    /\ clock = 0
    /\ req = [r \in Reqs |-> Idle]
    /\ deletedById = {}
    /\ last = Quiet

----------------------------------------------------------------------------
\* External ingestion (not part of this repository): inserts one row; the
\* store assigns the id and a created_at that never decreases.
Insert(entry, desc, job, created) ==
    /\ ~Pending
    /\ nextId <= MaxRows
    /\ created \in {clock, clock + 1} \ {0}
    /\ store' = store \cup
          {[id |-> nextId, date |-> entry.date, description |-> desc,
            amount |-> entry.amount, type |-> entry.type,
            created_at |-> created, job_id |-> job]}
    /\ nextId' = nextId + 1
    /\ clock' = created
    /\ last' = Quiet
    /\ UNCHANGED <<req, deletedById>>

\* c.JSON has written the response and the handler returns.  Writing the
\* response touches no shared state, so it is taken before any other step.
\* Of a deleteMostRecentJob response that followed its second statement a
\* summary stays until the next step.
Deliver ==
    /\ Pending
    /\ last' = IF last.op = "deleteMostRecentJob" /\ last.stmts = 2
               THEN [last EXCEPT !.phase = "delivered", !.body = NoBody,
                                 !.removed = {}, !.mark = 0]
               ELSE Quiet
    /\ UNCHANGED <<store, nextId, clock, req, deletedById>>

\* GET /transactions.  rows: the result of the query, in the store's order;
\* fail: "query" the Query call returns an error, "scan" a Scan of a row
\* returns one, "stream" rows.Next() ends early after cut rows (rows.Err() is
\* not consulted), "none" no failure.
getTransactions(r, fail, cut) ==
    /\ ~Pending
    /\ req[r].pc = "idle"
    /\ \E rows \in OrderByDateDesc(store) :
          /\ cut \in 0..Len(rows)
          /\ fail # "stream" => cut = Len(rows)
          /\ fail = "stream" => cut < Len(rows)
          /\ fail = "scan" => rows # <<>>
          /\ last' =
               IF fail \in {"query", "scan"}
               THEN Response(r, "getTransactions", NoParam,
                             StatusInternalServerError, "conn",
                             ErrorBody("conn"), {})
               ELSE Response(r, "getTransactions", NoParam, StatusOK,
                             IF fail = "stream" THEN "conn" ELSE "nil",
                             MarshalSlice(ScanAll(SubSeq(rows, 1, cut),
                                                  NilSlice)),
                             {})
    /\ UNCHANGED <<store, nextId, clock, req, deletedById>>

\* Error of a statement with the parameter id: the store cannot be reached,
\* or it rejects a text that is no integer where it compares it with the
\* integer column id.
ParamErr(id, fail) ==
    IF fail THEN "conn" ELSE IF ~id.ok THEN "syntax" ELSE "nil"

\* Outcome of QueryRow(... WHERE id = $1, id).Scan(...); no matching row is
\* pgx.ErrNoRows.
QueryRowById(S, id, fail) ==
    IF ParamErr(id, fail) # "nil"
    THEN [err |-> ParamErr(id, fail), rows |-> {}]
    ELSE IF SelectById(S, id.n) = {} THEN [err |-> "no_rows", rows |-> {}]
    ELSE [err |-> "nil", rows |-> SelectById(S, id.n)]

\* if err != nil { 404 } else { 200 }
getTransactionStatus(err) ==
    IF err # "nil" THEN StatusNotFound ELSE StatusOK

\* GET /transactions/:id
getTransaction(r, id, fail) ==
    /\ ~Pending
    /\ req[r].pc = "idle"
    /\ LET q == QueryRowById(store, id, fail)
           st == getTransactionStatus(q.err)
       IN last' = Response(r, "getTransaction", id, st, q.err,
                    IF st = StatusNotFound
                    THEN ErrorBody("Transaction not found")
                    ELSE Transaction(CHOOSE t \in q.rows : TRUE), {})
    /\ UNCHANGED <<store, nextId, clock, req, deletedById>>

\* The response object of getStats from its three aggregate queries.
StatsBody(S) ==
    [total_transactions |-> Count(S),
     total_debits |-> SumOfType(S, "debit"),
     total_credits |-> SumOfType(S, "credit")]

\* GET /stats.  failAt names the first of the three queries that fails
\* ("none": no failure).  The queries only read; the action evaluates them on
\* one store, which is the handler running with no write between them.
getStats(r, failAt) ==
    /\ ~Pending
    /\ req[r].pc = "idle"
    /\ last' =
         IF failAt # "none"
         THEN Response(r, "getStats", NoParam, StatusInternalServerError,
                       "conn", ErrorBody("conn"), {})
         ELSE Response(r, "getStats", NoParam, StatusOK, "nil",
                       StatsBody(store), {})
    /\ UNCHANGED <<store, nextId, clock, req, deletedById>>

\* Exec(DELETE ... WHERE id = $1, id): the rows it removes, or an error and
\* no effect.
ExecDeleteById(S, id, fail) ==
    IF ParamErr(id, fail) # "nil"
    THEN [err |-> ParamErr(id, fail), rows |-> {}]
    ELSE [err |-> "nil", rows |-> SelectById(S, id.n)]

\* Mutant: RowsAffected() is not consulted.
deleteStatusNoRowsCheck(err, affected) ==
    IF err # "nil" THEN StatusInternalServerError ELSE StatusOK

\* Mutant: the RowsAffected() test is inverted.
deleteStatusInverted(err, affected) ==
    IF err # "nil" THEN StatusInternalServerError
    ELSE IF affected # 0 THEN StatusNotFound
    ELSE StatusOK

\* if err != nil { 500 }; if RowsAffected() == 0 { 404 }; 200
deleteStatus(err, affected) ==
    IF err # "nil" THEN StatusInternalServerError
    ELSE IF affected = 0 THEN StatusNotFound
    ELSE StatusOK

deleteBody(status, err, ok) ==
    IF status = StatusInternalServerError THEN ErrorBody(err)
    ELSE IF status = StatusNotFound THEN ErrorBody("Transaction not found")
    ELSE [message |-> ok]

\* DELETE /transactions/:id
deleteTransaction(r, id, fail) ==
    /\ ~Pending
    /\ req[r].pc = "idle"
    /\ LET x == ExecDeleteById(store, id, fail)
           st == deleteStatus(x.err, Cardinality(x.rows))
       IN /\ store' = store \ x.rows
          /\ deletedById' = deletedById \cup {t.id : t \in x.rows}
          /\ last' = Response(r, "deleteTransaction", id, st, x.err,
                        deleteBody(st, x.err, "Transaction deleted"), x.rows)
    /\ UNCHANGED <<nextId, clock, req>>

\* The store holds rows of exactly two jobs, all rows of one strictly newer
\* than all rows of the other.
TwoJobs(S) ==
    \E a, b \in Jobs :
        /\ a # b
        /\ {t.job_id : t \in S} = {a, b}
        /\ \A t, u \in S :
              (t.job_id = a /\ u.job_id = b) => t.created_at < u.created_at

\* History: the job that the deleteMostRecentJob request delivered just now
\* removed, when it ran alone on a TwoJobs store.
JustRemoved ==
    IF /\ last.phase = "delivered"
       /\ last.status = StatusOK
       /\ last.seq
       /\ last.two
    THEN last.job ELSE NoJob

\* Mutant: no row is not an error, jobID keeps its zero value.
QueryMostRecentJobNoErr(S, fail) ==
    IF fail THEN [err |-> "conn", jobs |-> {}]
    ELSE IF S = {} THEN [err |-> "nil", jobs |-> {NoJob}]
    ELSE [err |-> "nil", jobs |-> {t.job_id : t \in MostRecent(S)}]

\* Outcome of QueryRow(SELECT job_id ... LIMIT 1).Scan(&jobID)
QueryMostRecentJob(S, fail) ==
    IF fail THEN [err |-> "conn", jobs |-> {}]
    ELSE IF S = {} THEN [err |-> "no_rows", jobs |-> {}]
    ELSE [err |-> "nil", jobs |-> {t.job_id : t \in MostRecent(S)}]

\* DELETE /jobs/most-recent, first statement: on an error respond 500 and
\* return, else keep jobID for the second statement.
\* History: two, the store is a TwoJobs store; chain, JustRemoved.
lookupMostRecentJob(r, fail, job) ==
    /\ ~Pending
    /\ req[r].pc = "idle"
    /\ LET q == QueryMostRecentJob(store, fail)
       IN IF q.err # "nil"
          THEN /\ job = NoJob
               /\ req' = req
               /\ last' = Response(r, "deleteMostRecentJob", NoParam,
                                   StatusInternalServerError, q.err,
                                   ErrorBody(q.err), {})
          ELSE /\ job \in q.jobs
               /\ req' = [req EXCEPT ![r] = [pc |-> "delete", jobID |-> job,
                                                mark |-> nextId]]
               /\ last' = [Quiet EXCEPT !.phase = "step", !.req = r,
                                        !.op = "lookup", !.job = job,
                                        !.stmts = 1, !.two = TwoJobs(store),
                                        !.chain = JustRemoved]
    /\ UNCHANGED <<store, nextId, clock, deletedById>>

\* Mutant: only the most recent rows of the job are deleted.
ExecDeleteByJobNewest(S, job, fail) ==
    IF fail THEN [err |-> "conn", rows |-> {}]
    ELSE [err |-> "nil", rows |-> RowsOfJob(S, job) \cap MostRecent(S)]

\* Exec(DELETE ... WHERE job_id = $1, jobID)
ExecDeleteByJob(S, job, fail) ==
    IF fail THEN [err |-> "conn", rows |-> {}]
    ELSE [err |-> "nil", rows |-> RowsOfJob(S, job)]

\* DELETE /jobs/most-recent, second statement and response.
\* History: seq, this step directly follows the request's own lookup;
\* peer, it directly follows the delivery of the response of another request
\* whose second statement ran without error on the same jobID; mark, the
\* request's mark.
deleteMostRecentJob(r, fail) ==
    /\ ~Pending
    /\ req[r].pc = "delete"
    /\ LET job == req[r].jobID
           x == ExecDeleteByJob(store, job, fail)
           st == deleteStatus(x.err, Cardinality(x.rows))
           seq == last.op = "lookup" /\ last.req = r
           peer == /\ last.phase = "delivered"
                   /\ last.req # r
                   /\ last.err = "nil"
                   /\ last.job = job
       IN /\ store' = store \ x.rows
          /\ last' = [Response(r, "deleteMostRecentJob", NoParam, st, x.err,
                        deleteBody(st, x.err,
                                   "Most recent job transactions deleted"),
                        x.rows)
                      EXCEPT !.job = job, !.stmts = 2, !.seq = seq,
                             !.two = seq /\ last.two,
                             !.chain = IF seq THEN last.chain ELSE NoJob,
                             !.peer = peer, !.mark = req[r].mark]
    /\ req' = [req EXCEPT ![r] = Idle]
    /\ UNCHANGED <<nextId, clock, deletedById>>

Next ==
    \/ \E e \in Entries, s \in Descriptions, j \in Jobs,
          c \in 1..(MaxRows + 1) : Insert(e, s, j, c)
    \/ Deliver
    \/ \E r \in Reqs, f \in {"none", "query", "scan", "stream"},
          k \in 0..MaxRows : getTransactions(r, f, k)
    \/ \E r \in Reqs, id \in Params, f \in BOOLEAN : getTransaction(r, id, f)
    \/ \E r \in Reqs, f \in {"none", "count", "debits", "credits"} :
          getStats(r, f)
    \/ \E r \in Reqs, id \in Params, f \in BOOLEAN :
          deleteTransaction(r, id, f)
    \/ \E r \in Reqs, f \in BOOLEAN, j \in Jobs \cup {NoJob} :
          lookupMostRecentJob(r, f, j)
    \/ \E r \in Reqs, f \in BOOLEAN : deleteMostRecentJob(r, f)

Spec == Init /\ [][Next]_vars

----------------------------------------------------------------------------
\* Properties.  They read the response just written (Pending) and the store
\* it left; Before is the store the responding statement ran on.
Before == store \cup last.removed

JobDeleted ==
    Pending /\ last.op = "deleteMostRecentJob" /\ last.stmts = 2

OlderThan(S, a, b) ==
    \A t, u \in S :
        (t.job_id = a /\ u.job_id = b) => t.created_at < u.created_at

\* C1: a DELETE /jobs/most-recent that runs alone and without a store error
\* on a store holding rows of exactly two jobs, those of job a all older than
\* those of job b, responds 200, removes every row of b and no row of a; a
\* second such call right after it responds 200 and removes every row of a.
C1_SequentialMostRecentJob ==
    (JobDeleted /\ last.seq /\ last.err = "nil") =>
        /\ \A a, b \in Jobs :
              (/\ a # b
               /\ {t.job_id : t \in Before} = {a, b}
               /\ OlderThan(Before, a, b))
              => /\ last.status = StatusOK
                 /\ last.removed = {t \in Before : t.job_id = b}
                 /\ store = {t \in Before : t.job_id = a}
        /\ last.chain # NoJob
              => /\ last.status = StatusOK
                 /\ last.job # last.chain
                 /\ last.removed = Before
                 /\ \A t \in last.removed : t.job_id = last.job
                 /\ store = {}

C1_Witness ==
    /\ JobDeleted /\ last.seq /\ last.err = "nil"
    /\ last.chain # NoJob
    /\ last.status = StatusOK
    /\ last.removed # {}
    /\ store = {}

\* C2: without a store error, DELETE /transactions/{id} for an id in the
\* store responds 200 and removes exactly the row with that id; for an id
\* that an earlier DELETE /transactions/{id} removed it responds 404 and
\* removes nothing.
PrevDeletedById == deletedById \ {t.id : t \in last.removed}

C2_DeleteExactlyOne ==
    (Pending /\ last.op = "deleteTransaction" /\ last.err = "nil") =>
        /\ (\E t \in Before : t.id = last.arg.n)
              => /\ last.status = StatusOK
                 /\ Cardinality(last.removed) = 1
                 /\ \A t \in Before : t \in last.removed <=> t.id = last.arg.n
                 /\ store = {t \in Before : t.id # last.arg.n}
        /\ last.arg.n \in PrevDeletedById
              => /\ last.status = StatusNotFound
                 /\ last.removed = {}
                 /\ store = Before

C2_Witness ==
    /\ Pending /\ last.op = "deleteTransaction" /\ last.err = "nil"
    /\ last.arg.n \in PrevDeletedById
    /\ last.status = StatusNotFound
    /\ store # {}

\* C3: for every id absent from the store, GET and DELETE /transactions/{id}
\* respond 404 and remove nothing (store reachable).
AbsentId ==
    ~\E t \in Before : last.arg.ok /\ t.id = last.arg.n

C3_AbsentIdNotFound ==
    (/\ Pending
     /\ last.op \in {"getTransaction", "deleteTransaction"}
     /\ last.err # "conn"
     /\ AbsentId)
    => (last.status = StatusNotFound /\ last.removed = {})

\* C4: GET /transactions/{id} responds 500 when the store query fails for
\* another reason than no matching row, and 404 only when no row matches.
C4_StoreFailureIs500 ==
    (Pending /\ last.op = "getTransaction") =>
        /\ last.err = "conn" => last.status = StatusInternalServerError
        /\ last.status = StatusNotFound => last.err # "conn"

\* C5: without a store error GET /stats responds 200 with the number of rows,
\* the sum of amount over the debit rows and over the credit rows of the
\* store; 0 where there is no such row.
TotalOf(ty) ==
    LET amt(i) == IF \E t \in store : t.id = i /\ t.type = ty
                  THEN (CHOOSE t \in store : t.id = i).amount ELSE 0
        upTo[i \in 0..nextId] == IF i = 0 THEN 0 ELSE upTo[i - 1] + amt(i)
    IN upTo[nextId]

C5_StatsTotals ==
    (Pending /\ last.op = "getStats" /\ last.err = "nil") =>
        /\ last.status = StatusOK
        /\ last.body.total_transactions = Cardinality(store)
        /\ last.body.total_debits = TotalOf("debit")
        /\ last.body.total_credits = TotalOf("credit")
        /\ store = {} => last.body = [total_transactions |-> 0,
                                      total_debits |-> 0, total_credits |-> 0]

C5_Witness ==
    /\ Pending /\ last.op = "getStats" /\ last.err = "nil"
    /\ \E t \in store : t.type = "debit"
    /\ \E t \in store : t.type = "credit"
    /\ last.body = [total_transactions |-> 2, total_debits |-> 50,
                    total_credits |-> 30]

\* C6: GET /transactions on a store with no rows responds 200 with an empty
\* array as its body.
C6_EmptyListIsArray ==
    (Pending /\ last.op = "getTransactions" /\ last.err = "nil" /\ store = {})
    => /\ last.status = StatusOK
       /\ last.body = [json |-> "array", elems |-> <<>>]

\* C7: DELETE /jobs/most-recent on a store with no rows responds 500 from its
\* first statement, never runs its second statement and leaves the store
\* empty.
C7_EmptyStoreIs500 ==
    /\ (last.phase = "step" /\ last.op = "lookup") => store # {}
    /\ (Pending /\ last.op = "deleteMostRecentJob" /\ last.stmts = 1)
          => /\ last.status = StatusInternalServerError
             /\ last.removed = {}
             /\ req[last.req].pc = "idle"
    /\ JobDeleted => last.job \in Jobs

C7_Witness ==
    /\ Pending /\ last.op = "deleteMostRecentJob" /\ last.stmts = 1
    /\ last.err = "no_rows"
    /\ last.status = StatusInternalServerError
    /\ store = {}

\* C8: of two DELETE /jobs/most-recent requests that hold the same jobID J,
\* the one whose second statement runs first responds 200 and removes all
\* rows of J; the other, running its second statement next, removes nothing
\* and responds 404; neither removes a row of another job (no store error).
C8_ConcurrentSameJob ==
    (JobDeleted /\ last.err = "nil") =>
        /\ \A t \in last.removed : t.job_id = last.job
        /\ (/\ ~last.peer
            /\ \E r \in Reqs \ {last.req} :
                  req[r].pc = "delete" /\ req[r].jobID = last.job)
              => /\ last.status = StatusOK
                 /\ last.removed # {}
                 /\ last.removed = {t \in Before : t.job_id = last.job}
        /\ last.peer
              => /\ last.status = StatusNotFound
                 /\ last.removed = {}

C8_Witness ==
    /\ JobDeleted /\ last.err = "nil"
    /\ last.peer
    /\ last.status = StatusNotFound
    /\ \E t \in store : t.job_id # last.job

\* C9: the second statement of DELETE /jobs/most-recent removes exactly the
\* rows that carry the jobID of the first statement when it runs: rows of
\* that job inserted after the first statement too, rows of any other job
\* never.
C9_RemovesRowsOfJobAtStep2 ==
    (JobDeleted /\ last.err = "nil") =>
        /\ last.removed = {t \in Before : t.job_id = last.job}
        /\ \A t \in Before :
              (t.id >= last.mark /\ t.job_id = last.job) => t \notin store
        /\ \A t \in Before : t.job_id # last.job => t \in store

\* The response is 200 while a newer batch, inserted between the two
\* statements, is fully present.
C9_Witness ==
    /\ JobDeleted /\ last.err = "nil"
    /\ last.status = StatusOK
    /\ \E t \in store :
          /\ t.id >= last.mark
          /\ t.job_id # last.job
          /\ \A u \in last.removed : u.created_at < t.created_at

\* C10: a DELETE /transactions/{id} or DELETE /jobs/most-recent that responds
\* 404 or 500 has removed no row, and one that responds 200 has removed at
\* least one.
C10_StatusMatchesEffect ==
    (Pending /\ last.op \in {"deleteTransaction", "deleteMostRecentJob"}) =>
        /\ last.status \in {StatusOK, StatusNotFound,
                            StatusInternalServerError}
        /\ last.status # StatusOK => last.removed = {}
        /\ last.status = StatusOK => last.removed # {}

C10_Witness ==
    /\ Pending /\ last.op = "deleteTransaction"
    /\ last.status = StatusNotFound
    /\ last.removed = {}
    /\ store # {}
    /\ \E r \in Reqs : req[r].pc = "delete"

====
